---- MODULE Spec2Model ----
(***************************************************************************)
(* Model of the news / transcription web application:                      *)
(*   - the two serverless handlers (api/transcribe-youtube.ts,             *)
(*     api/transcribe-file.ts), one invocation at a time, every await a    *)
(*     step whose outcome the external collaborator decides;               *)
(*   - the VideoTranscriber component in its two builds (the one that      *)
(*     posts to the handlers, and the one that calls the AI service from   *)
(*     the browser) under the App view switch;                             *)
(*   - the NewsViewer query over the article store.                        *)
(* Strings whose content the code inspects are sequences of characters.    *)
(***************************************************************************)
EXTENDS Integers, Sequences, FiniteSets, TLC

VARIABLES
  \* ---- handler invocation (api/*.ts)
  handlerName,   \* "none" | "youtube" | "file"
  req,           \* the request of the current invocation
  apiKey,        \* process.env.API_KEY during the invocation
  pc,            \* "idle" | "getInfo" | "download" | "ai" | "done"
  calls,         \* calls made to external collaborators in this invocation
  responses,     \* JSON responses sent in this invocation, in order
  escaped,       \* an exception left the handler function
  thrown,        \* what the catch block caught (NoThrown when nothing was)
  duration,      \* parseInt(info.videoDetails.lengthSeconds, 10)
  \* ---- VideoTranscriber under App
  variant,       \* "fetch" (posts to the handlers) | "direct" (calls the AI service)
  currentView,   \* App: "news" | "transcriber"
  inst,          \* number of VideoTranscriber mounts so far; the mounted one is inst
  inputType, urlValue, file, fileName, isLoading, transcript, error,
  pending,       \* suspended handleTranscribe calls: requests not yet returned
  outbound,      \* declared sizes of the files for which a network call was made
  lastOp,        \* the last user operation on the transcriber
  \* ---- NewsViewer
  MOCK_NEWS_DATA, \* the article array of constants.ts (a mutable JS array)
  loadedNews,     \* its value at load time
  activeChannel, searchQuery, filteredNews,
  highlightText, highlightQuery, \* arguments of the last renderHighlightedText
  highlightResult                \* what that call produced

apiVars  == <<handlerName, req, apiKey, pc, calls, responses, escaped, thrown, duration>>
uiVars   == <<variant, inst, inputType, urlValue, file, fileName, isLoading,
              transcript, error, pending, outbound, lastOp>>
highlightVars == <<highlightText, highlightQuery, highlightResult>>
newsVars == <<MOCK_NEWS_DATA, loadedNews, activeChannel, searchQuery, filteredNews,
              highlightVars>>
vars     == <<apiVars, uiVars, currentView, newsVars>>

(***************************************************************************)
(* Character strings                                                       *)
(***************************************************************************)
UpperCase == <<"A","B","C","D","E","F","G","H","I","J","K","L","M",
               "N","O","P","Q","R","S","T","U","V","W","X","Y","Z">>
LowerCase == <<"a","b","c","d","e","f","g","h","i","j","k","l","m",
               "n","o","p","q","r","s","t","u","v","w","x","y","z">>

\* String.prototype.toLowerCase
toLowerCase(s) ==
  [i \in 1..Len(s) |->
     IF \E k \in 1..Len(UpperCase) : UpperCase[k] = s[i]
     THEN LowerCase[CHOOSE k \in 1..Len(UpperCase) : UpperCase[k] = s[i]]
     ELSE s[i]]

\* String.prototype.includes
includes(s, sub) ==
  \E i \in 0..(Len(s) - Len(sub)) : SubSeq(s, i + 1, i + Len(sub)) = sub

\* String.prototype.trim (the only white space used here is the blank)
RECURSIVE trimStart(_)
trimStart(s) == IF s # <<>> /\ Head(s) = " " THEN trimStart(Tail(s)) ELSE s
RECURSIVE trimEnd(_)
trimEnd(s) ==
  IF s # <<>> /\ s[Len(s)] = " " THEN trimEnd(SubSeq(s, 1, Len(s) - 1)) ELSE s
trim(s) == trimEnd(trimStart(s))

Digits == <<"0","1","2","3","4","5","6","7","8","9">>
IsDigit(c) == \E k \in 1..10 : Digits[k] = c
DigitValue(c) == (CHOOSE k \in 1..10 : Digits[k] = c) - 1

\* parseInt(s, 10) on an unsigned string: the longest prefix of digits, NaN
\* when there is none.
RECURSIVE parseDigits(_, _)
parseDigits(s, acc) ==
  IF s # <<>> /\ IsDigit(Head(s))
  THEN parseDigits(Tail(s), 10 * acc + DigitValue(Head(s)))
  ELSE acc
parseInt(s) ==
  LET t == trimStart(s)
  IN IF t # <<>> /\ IsDigit(Head(t))
     THEN [nan |-> FALSE, value |-> parseDigits(t, 0)]
     ELSE [nan |-> TRUE, value |-> 0]

\* a > b in JavaScript for a parsed number: false whenever a is NaN
GreaterThan(a, b) == ~a.nan /\ a.value > b

(***************************************************************************)
(* Messages                                                                *)
(***************************************************************************)
MarkerApiKey == <<"a","p","i"," ","k","e","y">>
MarkerApiKeyEnv == <<"A","P","I","_","K","E","Y">>
MarkerResourceExhausted == <<"r","e","s","o","u","r","c","e"," ","h","a","s"," ","b","e","e","n"," ","e","x","h","a","u","s","t","e","d">>
MarkerEntityTooLarge == <<"r","e","q","u","e","s","t"," ","e","n","t","i","t","y"," ","t","o","o"," ","l","a","r","g","e">>
MsgApiKeyNotSet == <<"A","P","I","_","K","E","Y"," ","e","n","v","i","r","o","n","m","e","n","t"," ","v","a","r","i","a","b","l","e"," ","i","s"," ","n","o","t"," ","s","e","t",".">>
MsgUnknown == <<"A","n"," ","u","n","k","n","o","w","n"," ","e","r","r","o","r"," ","o","c","c","u","r","r","e","d">>
StreamErrorPrefix == <<"S","t","r","e","a","m"," ","e","r","r","o","r",":"," ">>

\* Messages an external collaborator may fail with.
MsgApiKeyInvalid == <<"A","P","I"," ","K","e","y"," ","n","o","t"," ","v","a","l","i","d">>
MsgQuota == <<"R","e","s","o","u","r","c","e"," ","h","a","s"," ","b","e","e","n"," ","e","x","h","a","u","s","t","e","d">>
MsgGrpcExhausted == <<"R","E","S","O","U","R","C","E"," ","E","X","H","A","U","S","T","E","D">>
MsgEntity == <<"R","e","q","u","e","s","t"," ","E","n","t","i","t","y"," ","T","o","o"," ","L","a","r","g","e">>
MsgKeyAndQuota == <<"A","p","i"," ","k","e","y",":"," ","r","e","s","o","u","r","c","e"," ","h","a","s"," ","b","e","e","n"," ","e","x","h","a","u","s","t","e","d">>
MsgEnvName == <<"b","a","d"," ","A","P","I","_","K","E","Y">>
MsgBoom == <<"b","o","o","m">>

ExternalMessages ==
  {MsgApiKeyInvalid, MsgQuota, MsgGrpcExhausted, MsgEntity, MsgKeyAndQuota,
   MsgEnvName, MsgBoom}

\* A thrown value: an Error with a message, or a value that is not an Error
\* (its message field then plays no part).
Failures ==
  [isError : {TRUE}, message : ExternalMessages]
    \cup {[isError |-> FALSE, message |-> MsgApiKeyInvalid]}

NoThrown == [isError |-> FALSE, message |-> <<>>]

\* The JavaScript value undefined, for a field that may hold a string.
Undefined == "<undefined>"
Falsy(v) == v \in {Undefined, ""}


(***************************************************************************)
(* The handlers: api/transcribe-youtube.ts and api/transcribe-file.ts      *)
(***************************************************************************)
MAX_VIDEO_DURATION_SECONDS == 600

\* Response bodies (the texts are fixed strings of the source, glossed).
ErrMethodNotAllowed == "Method Not Allowed"
ErrInvalidUrl       == "invalid or missing YouTube link"
ErrDuration         == "video longer than 10 minutes"
ErrNoAudioFormat    == "no audio format for this video"
ErrMissingFileData  == "missing file data or MIME type"
ErrApiKeyConfig     == "server API key misconfigured"
ErrVideoTooLarge    == "video file too large to process"
ErrFileTooLarge     == "file too large, upload less than 4.5MB"
ErrYoutubeFailed    == "error while processing the YouTube video"
ErrFileFailed       == "error while processing the file"

\* res.status(status).json({error}) / json({error, details}) / json({transcript})
JsonError(status, err) ==
  [status |-> status, error |-> err, hasDetails |-> FALSE, details |-> <<>>,
   transcript |-> Undefined]
JsonErrorDetails(status, err, details) ==
  [status |-> status, error |-> err, hasDetails |-> TRUE, details |-> details,
   transcript |-> Undefined]
JsonTranscript(t) ==
  [status |-> 200, error |-> Undefined, hasDetails |-> FALSE, details |-> <<>>,
   transcript |-> t]

Err(m) == [isError |-> TRUE, message |-> m]

\* error instanceof Error ? error.message : 'An unknown error occurred'
errorMessage(e) == IF e.isError THEN e.message ELSE MsgUnknown

\* catch block of transcribe-youtube.ts, with the resource check first
YoutubeCatch_ResourceFirst(e) ==
  LET m == errorMessage(e)
  IN IF includes(toLowerCase(m), MarkerResourceExhausted)
     THEN JsonError(413, ErrVideoTooLarge)
     ELSE IF includes(toLowerCase(m), MarkerApiKey) \/ includes(m, MarkerApiKeyEnv)
     THEN JsonError(500, ErrApiKeyConfig)
     ELSE JsonErrorDetails(500, ErrYoutubeFailed, m)

\* catch block of transcribe-youtube.ts
YoutubeCatch(e) ==
  LET m == errorMessage(e)
  IN IF includes(toLowerCase(m), MarkerApiKey) \/ includes(m, MarkerApiKeyEnv)
     THEN JsonError(500, ErrApiKeyConfig)
     ELSE IF includes(toLowerCase(m), MarkerResourceExhausted)
     THEN JsonError(413, ErrVideoTooLarge)
     ELSE JsonErrorDetails(500, ErrYoutubeFailed, m)

\* catch block of transcribe-file.ts, without the entity-too-large marker
FileCatch_NoEntityMarker(e) ==
  LET m == errorMessage(e)
  IN IF includes(toLowerCase(m), MarkerApiKey) \/ includes(m, MarkerApiKeyEnv)
     THEN JsonError(500, ErrApiKeyConfig)
     ELSE IF includes(toLowerCase(m), MarkerResourceExhausted)
     THEN JsonError(413, ErrFileTooLarge)
     ELSE JsonErrorDetails(500, ErrFileFailed, m)

\* catch block of transcribe-file.ts
FileCatch(e) ==
  LET m == errorMessage(e)
  IN IF includes(toLowerCase(m), MarkerApiKey) \/ includes(m, MarkerApiKeyEnv)
     THEN JsonError(500, ErrApiKeyConfig)
     ELSE IF includes(toLowerCase(m), MarkerResourceExhausted)
             \/ includes(toLowerCase(m), MarkerEntityTooLarge)
     THEN JsonError(413, ErrFileTooLarge)
     ELSE JsonErrorDetails(500, ErrFileFailed, m)

\* ytdl.validateURL: the hosting library's answer for the URLs of the model
ValidYoutubeUrls == {"https://youtu.be/v"}
validateURL(url) == url \in ValidYoutubeUrls

Methods == {"GET", "POST"}
Urls == {Undefined, "", "https://example.com/v", "https://youtu.be/v"}
FileDatas == {Undefined, "", "AAAA"}
MimeTypes == {Undefined, "", "audio/mp4"}
ApiKeys == {Undefined, "", "key"}
Transcripts == {"transcript text"}

\* req: method and body ({url} or {fileData, mimeType}); hasBody is FALSE when
\* req.body is undefined
YoutubeRequests ==
  [method : Methods, hasBody : {TRUE}, url : Urls,
   fileData : {Undefined}, mimeType : {Undefined}]
  \cup [method : Methods, hasBody : {FALSE}, url : {Undefined},
        fileData : {Undefined}, mimeType : {Undefined}]
FileRequests ==
  [method : Methods, hasBody : {TRUE}, url : {Undefined},
   fileData : FileDatas, mimeType : MimeTypes]
  \cup [method : Methods, hasBody : {FALSE}, url : {Undefined},
        fileData : {Undefined}, mimeType : {Undefined}]
NoRequest ==
  [method |-> "GET", hasBody |-> FALSE, url |-> Undefined,
   fileData |-> Undefined, mimeType |-> Undefined]

\* info.videoDetails.lengthSeconds as the library reports it
LengthSecondsInputs ==
  {<<"4","5">>, <<"5","9","9">>, <<"6","0","0">>, <<"6","0","1">>,
   <<"3","6","0","0">>, <<"6","0","0",".","9">>, <<>>}
\* duration before getInfo has resolved
NotResolved == [nan |-> TRUE, value |-> -1]

\* ytdl.chooseFormat: a format, a falsy value, or a throw
ChooseFormatOutcomes ==
  [kind : {"format", "none"}, failure : {NoThrown}]
  \cup [kind : {"throws"}, failure : {Err(MsgBoom), Err(MsgApiKeyInvalid)}]

\* duration > MAX_VIDEO_DURATION_SECONDS, off by one
DurationExceeded_AtCeiling(d) == ~d.nan /\ d.value >= MAX_VIDEO_DURATION_SECONDS

\* duration > MAX_VIDEO_DURATION_SECONDS
DurationExceeded(d) == GreaterThan(d, MAX_VIDEO_DURATION_SECONDS)

Count(seq, x) == Cardinality({i \in 1..Len(seq) : seq[i] = x})

\* the invocation ends with a response
Respond(resp, e) ==
  /\ responses' = Append(responses, resp)
  /\ thrown' = e
  /\ pc' = "done"

Begin(name, r, key) ==
  /\ pc \in {"idle", "done"}
  /\ handlerName' = name
  /\ req' = r
  /\ apiKey' = key
  /\ duration' = NotResolved
  /\ UNCHANGED <<uiVars, currentView, newsVars>>

\* transcribe-youtube.ts handler, from entry to the await of getInfo
YoutubeHandler(r, key) ==
  /\ Begin("youtube", r, key)
  /\ IF r.method # "POST"
     THEN /\ responses' = <<JsonError(405, ErrMethodNotAllowed)>>
          /\ calls' = <<>> /\ escaped' = FALSE /\ thrown' = NoThrown /\ pc' = "done"
     ELSE IF ~r.hasBody
     THEN \* const { url } = req.body throws a TypeError outside the try block
          /\ responses' = <<>>
          /\ calls' = <<>> /\ escaped' = TRUE /\ thrown' = NoThrown /\ pc' = "done"
     ELSE IF Falsy(r.url)
     THEN /\ responses' = <<JsonError(400, ErrInvalidUrl)>>
          /\ calls' = <<>> /\ escaped' = FALSE /\ thrown' = NoThrown /\ pc' = "done"
     ELSE IF ~validateURL(r.url)
     THEN /\ responses' = <<JsonError(400, ErrInvalidUrl)>>
          /\ calls' = <<"validateURL">>
          /\ escaped' = FALSE /\ thrown' = NoThrown /\ pc' = "done"
     ELSE /\ responses' = <<>>
          /\ calls' = <<"validateURL", "getInfo">>
          /\ escaped' = FALSE /\ thrown' = NoThrown /\ pc' = "getInfo"

\* getInfo rejects: the catch block answers
GetInfoRejected(f) ==
  /\ pc = "getInfo"
  /\ Respond(YoutubeCatch(f), f)
  /\ UNCHANGED <<handlerName, req, apiKey, calls, escaped, duration>>
  /\ UNCHANGED <<uiVars, currentView, newsVars>>

\* getInfo resolves: duration check, format selection, start of the download
GetInfoResolved(lengthSeconds, chosen) ==
  /\ pc = "getInfo"
  /\ duration' = parseInt(lengthSeconds)
  /\ IF DurationExceeded(duration')
     THEN /\ Respond(JsonError(400, ErrDuration), NoThrown)
          /\ UNCHANGED calls
     ELSE IF chosen.kind = "throws"
     THEN /\ Respond(YoutubeCatch(chosen.failure), chosen.failure)
          /\ calls' = Append(calls, "chooseFormat")
     ELSE IF chosen.kind = "none"
     THEN /\ Respond(JsonError(400, ErrNoAudioFormat), NoThrown)
          /\ calls' = Append(calls, "chooseFormat")
     ELSE /\ calls' = calls \o <<"chooseFormat", "download">>
          /\ pc' = "download"
          /\ UNCHANGED <<responses, thrown>>
  /\ UNCHANGED <<handlerName, req, apiKey, escaped>>
  /\ UNCHANGED <<uiVars, currentView, newsVars>>

\* the audio stream emits 'error': streamToBuffer rejects with a wrapped Error
DownloadFailed(m) ==
  /\ pc = "download"
  /\ LET e == Err(StreamErrorPrefix \o m)
     IN Respond(YoutubeCatch(e), e)
  /\ UNCHANGED <<handlerName, req, apiKey, calls, escaped, duration>>
  /\ UNCHANGED <<uiVars, currentView, newsVars>>

\* the audio stream ends: credential check, then the AI call
DownloadEnded ==
  /\ pc = "download"
  /\ IF Falsy(apiKey)
     THEN /\ Respond(YoutubeCatch(Err(MsgApiKeyNotSet)), Err(MsgApiKeyNotSet))
          /\ UNCHANGED calls
     ELSE /\ calls' = Append(calls, "generateContent")
          /\ pc' = "ai"
          /\ UNCHANGED <<responses, thrown>>
  /\ UNCHANGED <<handlerName, req, apiKey, escaped, duration>>
  /\ UNCHANGED <<uiVars, currentView, newsVars>>

\* generateContent settles in transcribe-youtube.ts
YoutubeGenerateContentResolved(t) ==
  /\ pc = "ai" /\ handlerName = "youtube"
  /\ Respond(JsonTranscript(t), NoThrown)
  /\ UNCHANGED <<handlerName, req, apiKey, calls, escaped, duration>>
  /\ UNCHANGED <<uiVars, currentView, newsVars>>

YoutubeGenerateContentRejected(f) ==
  /\ pc = "ai" /\ handlerName = "youtube"
  /\ Respond(YoutubeCatch(f), f)
  /\ UNCHANGED <<handlerName, req, apiKey, calls, escaped, duration>>
  /\ UNCHANGED <<uiVars, currentView, newsVars>>

\* transcribe-file.ts handler, from entry to the await of generateContent
FileHandler(r, key) ==
  /\ Begin("file", r, key)
  /\ IF r.method # "POST"
     THEN /\ responses' = <<JsonError(405, ErrMethodNotAllowed)>>
          /\ calls' = <<>> /\ escaped' = FALSE /\ thrown' = NoThrown /\ pc' = "done"
     ELSE IF ~r.hasBody
     THEN \* const { fileData, mimeType } = req.body throws outside the try block
          /\ responses' = <<>>
          /\ calls' = <<>> /\ escaped' = TRUE /\ thrown' = NoThrown /\ pc' = "done"
     ELSE IF Falsy(r.fileData) \/ Falsy(r.mimeType)
     THEN /\ responses' = <<JsonError(400, ErrMissingFileData)>>
          /\ calls' = <<>> /\ escaped' = FALSE /\ thrown' = NoThrown /\ pc' = "done"
     ELSE IF Falsy(key)
     THEN /\ responses' = <<FileCatch(Err(MsgApiKeyNotSet))>>
          /\ calls' = <<>> /\ escaped' = FALSE
          /\ thrown' = Err(MsgApiKeyNotSet) /\ pc' = "done"
     ELSE /\ responses' = <<>>
          /\ calls' = <<"generateContent">>
          /\ escaped' = FALSE /\ thrown' = NoThrown /\ pc' = "ai"

\* generateContent settles in transcribe-file.ts
FileGenerateContentResolved(t) ==
  /\ pc = "ai" /\ handlerName = "file"
  /\ Respond(JsonTranscript(t), NoThrown)
  /\ UNCHANGED <<handlerName, req, apiKey, calls, escaped, duration>>
  /\ UNCHANGED <<uiVars, currentView, newsVars>>

\* generateContent rejects in transcribe-file.ts, and the call is made again
FileGenerateContentRejected_Retry(f) ==
  /\ pc = "ai" /\ handlerName = "file"
  /\ IF Count(calls, "generateContent") < 2
     THEN /\ calls' = Append(calls, "generateContent")
          /\ UNCHANGED <<responses, thrown, pc>>
     ELSE /\ Respond(FileCatch(f), f)
          /\ UNCHANGED calls
  /\ UNCHANGED <<handlerName, req, apiKey, escaped, duration>>
  /\ UNCHANGED <<uiVars, currentView, newsVars>>

FileGenerateContentRejected(f) ==
  /\ pc = "ai" /\ handlerName = "file"
  /\ Respond(FileCatch(f), f)
  /\ UNCHANGED <<handlerName, req, apiKey, calls, escaped, duration>>
  /\ UNCHANGED <<uiVars, currentView, newsVars>>


(***************************************************************************)
(* VideoTranscriber (both builds) under App                                *)
(***************************************************************************)
MaxMounts == 2

Variants == {"fetch", "direct"}

\* 4.5 * 1024 * 1024
MaxUploadBytes == (45 * 1024 * 1024) \div 10

NoFile == [present |-> FALSE, name |-> "", size |-> 0]
Files ==
  {[present |-> TRUE, name |-> "small.mp3", size |-> 1024],
   [present |-> TRUE, name |-> "exact.mp4", size |-> MaxUploadBytes],
   [present |-> TRUE, name |-> "over.mp4",  size |-> MaxUploadBytes + 1]}

UrlInputs == {<<>>, <<" ">>, <<"h","t","t","p">>}

\* Messages shown by the component (fixed strings of the source, glossed);
\* error is a sequence of message parts, <<>> being the empty string.
NoError            == <<>>
UiErrNoInput       == <<"please provide a video link or upload a file">>
UiErrNetwork       == <<"cannot reach the backend service">>
UiErrUrlUnsupported == <<"YouTube links need a backend, use file upload">>
UiErrApiKey        == <<"conversion failed: API key invalid or not set">>
UiErrGeneric       == <<"conversion failed, format unsupported or file too large">>
ConvertFailed      == "conversion failed: "
MsgOverLimit       == "file size exceeds the 4.5MB limit"
MsgReadFailed      == "[object ProgressEvent]"
MsgServerDefault   == "error while getting the transcript from the server"
MsgJsonParse       == "Unexpected token < in JSON"

\* What a fetch to a handler can come back with: a rejected fetch, a body
\* that is not JSON, or a JSON response of the handler.
ServerErrors ==
  {ErrMethodNotAllowed, ErrInvalidUrl, ErrDuration, ErrNoAudioFormat,
   ErrMissingFileData, ErrApiKeyConfig, ErrVideoTooLarge, ErrFileTooLarge,
   ErrYoutubeFailed, ErrFileFailed}
FetchOutcomes ==
  [kind : {"failedToFetch", "notJson"}, ok : {FALSE}, error : {Undefined},
   transcript : {Undefined}]
  \cup [kind : {"json"}, ok : {FALSE}, error : {Undefined, ErrApiKeyConfig, ErrFileTooLarge},
        transcript : {Undefined}]
  \cup [kind : {"json"}, ok : {TRUE}, error : {Undefined}, transcript : Transcripts]

\* abandoned: handleTypeChange has run while a request of this instance was
\* outstanding, and there has been no submit since
NoOp == [op |-> "none", mode |-> "url", size |-> 0, dirty |-> FALSE, abandoned |-> FALSE]
Op(name) == [op |-> name, mode |-> "url", size |-> 0, dirty |-> FALSE,
             abandoned |-> lastOp.abandoned]
\* a submit remembers the mode and the declared size it was made with
SubmitOp == [op |-> "handleTranscribe", mode |-> inputType, size |-> file.size,
             dirty |-> FALSE, abandoned |-> FALSE]

\* the instance that started request r is still the mounted one
Mounted(r) == currentView = "transcriber" /\ r.inst = inst

\* useState initial values of the build
InitialInputType == IF variant = "fetch" THEN "url" ELSE "file"

Dirty ==
  urlValue # <<>> \/ file.present \/ fileName # "" \/ transcript # "" \/ error # NoError

\* resetState without setTranscript('')
resetState_KeepsTranscript ==
  /\ urlValue' = <<>>
  /\ file' = NoFile
  /\ fileName' = ""
  /\ UNCHANGED transcript
  /\ error' = NoError

resetState ==
  /\ urlValue' = <<>>
  /\ file' = NoFile
  /\ fileName' = ""
  /\ transcript' = ""
  /\ error' = NoError

handleTypeChange(type) ==
  /\ currentView = "transcriber"
  /\ inputType' = type
  /\ resetState
  /\ lastOp' = [Op("handleTypeChange") EXCEPT !.dirty = Dirty,
                                              !.abandoned = isLoading \/ lastOp.abandoned]
  /\ UNCHANGED <<variant, inst, isLoading, pending, outbound>>
  /\ UNCHANGED <<apiVars, currentView, newsVars>>

\* the file input is rendered in file mode only; f = NoFile is a cancelled dialog
handleFileChange(f) ==
  /\ currentView = "transcriber" /\ inputType = "file"
  /\ IF f.present
     THEN /\ file' = f
          /\ fileName' = f.name
          /\ transcript' = ""
          /\ error' = NoError
     ELSE UNCHANGED <<file, fileName, transcript, error>>
  /\ lastOp' = Op("handleFileChange")
  /\ UNCHANGED <<variant, inst, inputType, urlValue, isLoading, pending, outbound>>
  /\ UNCHANGED <<apiVars, currentView, newsVars>>

\* onChange of the URL input, rendered in url mode only
UrlInputChange(v) ==
  /\ currentView = "transcriber" /\ inputType = "url"
  /\ urlValue' = v
  /\ error' = NoError
  /\ lastOp' = Op("urlInputChange")
  /\ UNCHANGED <<variant, inst, inputType, file, fileName, isLoading, transcript,
                 pending, outbound>>
  /\ UNCHANGED <<apiVars, currentView, newsVars>>

Request(stage) == [inst |-> inst, stage |-> stage, mode |-> inputType, file |-> file]

\* handleTranscribe of the build that posts to the handlers, up to its first
\* await; the button is disabled while isLoading
handleTranscribe_Fetch ==
  /\ variant = "fetch" /\ currentView = "transcriber" /\ ~isLoading
  /\ lastOp' = SubmitOp
  /\ IF (inputType = "url" /\ trim(urlValue) = <<>>) \/ (inputType = "file" /\ ~file.present)
     THEN /\ error' = UiErrNoInput
          /\ UNCHANGED <<isLoading, transcript, pending, outbound>>
     ELSE /\ transcript' = ""
          /\ IF inputType = "url"
             THEN /\ isLoading' = TRUE
                  /\ error' = NoError
                  /\ pending' = pending \cup {Request("fetch")}
                  /\ outbound' = outbound \cup {[call |-> "transcribe-youtube", size |-> 0]}
             ELSE IF file.size > MaxUploadBytes
             THEN \* throw, catch and finally run before the handler returns
                  /\ isLoading' = FALSE
                  /\ error' = <<ConvertFailed, MsgOverLimit>>
                  /\ UNCHANGED <<pending, outbound>>
             ELSE /\ isLoading' = TRUE
                  /\ error' = NoError
                  /\ pending' = pending \cup {Request("read")}
                  /\ UNCHANGED outbound
  /\ UNCHANGED <<variant, inst, inputType, urlValue, file, fileName>>
  /\ UNCHANGED <<apiVars, currentView, newsVars>>

\* handleTranscribe of the build that calls the AI service itself, up to its
\* first await; keyOk is whether new GoogleGenAI accepts process.env.API_KEY
handleTranscribe_Direct(keyOk) ==
  /\ variant = "direct" /\ currentView = "transcriber" /\ ~isLoading
  /\ lastOp' = SubmitOp
  /\ IF (inputType = "url" /\ trim(urlValue) = <<>>) \/ (inputType = "file" /\ ~file.present)
     THEN /\ error' = UiErrNoInput
          /\ UNCHANGED <<isLoading, transcript, pending>>
     ELSE /\ transcript' = ""
          /\ IF inputType = "url"
             THEN /\ error' = UiErrUrlUnsupported
                  /\ isLoading' = FALSE
                  /\ UNCHANGED pending
             ELSE IF ~keyOk
             THEN /\ error' = UiErrApiKey
                  /\ isLoading' = FALSE
                  /\ UNCHANGED pending
             ELSE /\ error' = NoError
                  /\ isLoading' = TRUE
                  /\ pending' = pending \cup {Request("read")}
  /\ UNCHANGED <<variant, inst, inputType, urlValue, file, fileName, outbound>>
  /\ UNCHANGED <<apiVars, currentView, newsVars>>

\* the end of a suspended handleTranscribe: its setState calls reach the
\* component only while the instance that started it is mounted
Settle(r, newTranscript, newError) ==
  /\ pending' = pending \ {r}
  /\ lastOp' = Op("settled")
  /\ IF Mounted(r)
     THEN /\ transcript' = IF newError = NoError THEN newTranscript ELSE transcript
          /\ error' = IF newError = NoError THEN error ELSE newError
          /\ isLoading' = FALSE
     ELSE UNCHANGED <<transcript, error, isLoading>>

\* FileReader finishes: the encoded file is sent, or the read error is caught
FileReadSettled(r, ok) ==
  /\ r \in pending /\ r.stage = "read"
  /\ IF ok
     THEN /\ pending' = (pending \ {r})
                \cup {[r EXCEPT !.stage = IF variant = "fetch" THEN "fetch" ELSE "ai"]}
          /\ outbound' = outbound \cup
                {[call |-> IF variant = "fetch" THEN "transcribe-file" ELSE "generateContent",
                  size |-> r.file.size]}
          /\ lastOp' = Op("settled")
          /\ UNCHANGED <<transcript, error, isLoading>>
     ELSE /\ Settle(r, "", IF variant = "fetch" THEN <<ConvertFailed, MsgReadFailed>>
                                                 ELSE UiErrGeneric)
          /\ UNCHANGED outbound
  /\ UNCHANGED <<variant, inst, inputType, urlValue, file, fileName>>
  /\ UNCHANGED <<apiVars, currentView, newsVars>>

\* fetch and response.json() settle in the build that posts to the handlers
FetchSettled(r, o) ==
  /\ variant = "fetch"
  /\ r \in pending /\ r.stage = "fetch"
  /\ IF o.kind = "failedToFetch" THEN Settle(r, "", UiErrNetwork)
     ELSE IF o.kind = "notJson" THEN Settle(r, "", <<ConvertFailed, MsgJsonParse>>)
     ELSE IF ~o.ok
     THEN Settle(r, "", <<ConvertFailed,
                          IF Falsy(o.error) THEN MsgServerDefault ELSE o.error>>)
     ELSE Settle(r, o.transcript, NoError)
  /\ UNCHANGED <<variant, inst, inputType, urlValue, file, fileName, outbound>>
  /\ UNCHANGED <<apiVars, currentView, newsVars>>

\* generateContent settles in the build that calls the AI service itself
DirectGenerateContentResolved(r, t) ==
  /\ variant = "direct"
  /\ r \in pending /\ r.stage = "ai"
  /\ Settle(r, t, NoError)
  /\ UNCHANGED <<variant, inst, inputType, urlValue, file, fileName, outbound>>
  /\ UNCHANGED <<apiVars, currentView, newsVars>>

DirectGenerateContentRejected(r, f) ==
  /\ variant = "direct"
  /\ r \in pending /\ r.stage = "ai"
  /\ LET m == f.message   \* e instanceof Error ? e.message : String(e)
     IN Settle(r, "", IF includes(toLowerCase(m), MarkerApiKey)
                      THEN UiErrApiKey ELSE UiErrGeneric)
  /\ UNCHANGED <<variant, inst, inputType, urlValue, file, fileName, outbound>>
  /\ UNCHANGED <<apiVars, currentView, newsVars>>


(***************************************************************************)
(* NewsViewer over the article store                                       *)
(***************************************************************************)
\* Articles of the store; date is the time value of new Date(article.date).
Article1 == [id |-> 1, channelId |-> "cna", date |-> 3,
             title |-> <<"V","o","t","e">>, content |-> <<"p","o","l","l">>]
Article2 == [id |-> 2, channelId |-> "pts", date |-> 1,
             title |-> <<"R","a","i","n">>, content |-> <<"V","O","T","E"," ","d","a","y">>]
Article3 == [id |-> 3, channelId |-> "cna", date |-> 3,
             title |-> <<"G","a","m","e">>, content |-> <<"g","o","a","l">>]
Articles == {Article1, Article2, Article3}

\* The array exported by constants.ts: the articles in some load order.
StoreChoices ==
  {st \in [1..Cardinality(Articles) -> Articles] :
      \A i, j \in 1..Cardinality(Articles) : i # j => st[i] # st[j]}

ChannelFilters == {"all", "cna", "pts"}
SearchInputs == {<<>>, <<" ">>, <<"v","o","t","e">>, <<"G","A">>}

\* insertion of x before the elements of its own date (an unstable sort)
RECURSIVE insertByDateDesc_TiesFirst(_, _)
insertByDateDesc_TiesFirst(sorted, x) ==
  IF sorted = <<>> THEN <<x>>
  ELSE IF x.date - Head(sorted).date >= 0
       THEN <<x>> \o sorted
       ELSE <<Head(sorted)>> \o insertByDateDesc_TiesFirst(Tail(sorted), x)

\* insertion of x into a date-descending array after every element that does
\* not sort after it (the sort is stable)
RECURSIVE insertByDateDesc(_, _)
insertByDateDesc(sorted, x) ==
  IF sorted = <<>> THEN <<x>>
  ELSE IF x.date - Head(sorted).date > 0
       THEN <<x>> \o sorted
       ELSE <<Head(sorted)>> \o insertByDateDesc(Tail(sorted), x)

\* arr.sort((a, b) => new Date(b.date).getTime() - new Date(a.date).getTime())
RECURSIVE sortByDateDesc(_)
sortByDateDesc(arr) ==
  IF arr = <<>> THEN <<>>
  ELSE insertByDateDesc(sortByDateDesc(SubSeq(arr, 1, Len(arr) - 1)), arr[Len(arr)])

MatchesChannel(article, channel) == article.channelId = channel

\* the search predicate looking at the title only
MatchesQuery_TitleOnly(article, lowercasedQuery) ==
  includes(toLowerCase(article.title), lowercasedQuery)

MatchesQuery(article, lowercasedQuery) ==
  \/ includes(toLowerCase(article.title), lowercasedQuery)
  \/ includes(toLowerCase(article.content), lowercasedQuery)

\* the array `news` before the sort (SelectSeq is Array.prototype.filter);
\* news is MOCK_NEWS_DATA itself when neither filter runs
Selected(store, channel, query) ==
  LET byChannel == IF channel = "all" THEN store
                   ELSE LET K(a) == MatchesChannel(a, channel) IN SelectSeq(store, K)
  IN IF trim(query) # <<>>
     THEN LET Q(a) == MatchesQuery(a, toLowerCase(query)) IN SelectSeq(byChannel, Q)
     ELSE byChannel
Aliased(channel, query) == channel = "all" /\ trim(query) = <<>>

\* the useMemo body of NewsViewer: computes filteredNews; the sort is in
\* place, so it reorders MOCK_NEWS_DATA when news is that array
ComputeFilteredNews(channel, query) ==
  /\ filteredNews' = sortByDateDesc(Selected(MOCK_NEWS_DATA, channel, query))
  /\ MOCK_NEWS_DATA' = IF Aliased(channel, query)
                       THEN sortByDateDesc(MOCK_NEWS_DATA)
                       ELSE MOCK_NEWS_DATA

setActiveChannel(channel) ==
  /\ currentView = "news"
  /\ activeChannel' = channel
  /\ ComputeFilteredNews(channel, searchQuery)
  /\ UNCHANGED <<searchQuery, loadedNews, highlightVars>>
  /\ UNCHANGED <<apiVars, uiVars, currentView>>

setSearchQuery(query) ==
  /\ currentView = "news"
  /\ searchQuery' = query
  /\ ComputeFilteredNews(activeChannel, query)
  /\ UNCHANGED <<activeChannel, loadedNews, highlightVars>>
  /\ UNCHANGED <<apiVars, uiVars, currentView>>

(***************************************************************************)
(* renderHighlightedText: text.split(new RegExp(`(${query})`, 'gi'))       *)
(*                                                                         *)
(* The pattern language is the part of the RegExp syntax the query inputs  *)
(* use: literal characters, ".", "|", "*" and groups "(" ... ")".          *)
(* A match result is [pos, caps]: the end position and, for the group      *)
(* opened at each pattern index, <<>> (undefined) or <<captured string>>.  *)
(* Results are in the order the backtracking matcher tries them.           *)
(***************************************************************************)
Min(a, b) == IF a < b THEN a ELSE b

\* number of groups open after pattern[1..k]
RECURSIVE Depth(_, _)
Depth(pattern, k) ==
  IF k = 0 THEN 0
  ELSE Depth(pattern, k - 1)
         + (IF pattern[k] = "(" THEN 1 ELSE IF pattern[k] = ")" THEN -1 ELSE 0)

\* new RegExp(pattern) does not throw a SyntaxError: the groups are balanced
\* and every "*" has something to repeat
ValidPattern(pattern) ==
  /\ \A k \in 1..Len(pattern) : Depth(pattern, k) >= 0
  /\ Depth(pattern, Len(pattern)) = 0
  /\ \A k \in 1..Len(pattern) :
       pattern[k] = "*" => k > 1 /\ pattern[k - 1] \notin {"(", "|", "*"}

\* index of the ")" closing the "(" at index lo
Close(pattern, lo) ==
  CHOOSE k \in (lo + 1)..Len(pattern) :
    /\ Depth(pattern, k) = Depth(pattern, lo) - 1
    /\ \A m \in (lo + 1)..(k - 1) : Depth(pattern, m) >= Depth(pattern, lo)

\* index of the first "|" of pattern[lo..hi] outside any inner group, 0 if none
TopBar(pattern, lo, hi) ==
  LET bars == {k \in lo..hi : pattern[k] = "|"
                               /\ Depth(pattern, k) = Depth(pattern, lo - 1)}
  IN IF bars = {} THEN 0 ELSE CHOOSE k \in bars : \A m \in bars : k <= m

RECURSIVE MatchDisjunction(_, _, _, _, _, _)
RECURSIVE MatchAlternative(_, _, _, _, _, _)
RECURSIVE ThenAlternative(_, _, _, _, _)
RECURSIVE MatchStar(_, _, _, _, _, _, _, _)
RECURSIVE ThenStar(_, _, _, _, _, _, _)
RECURSIVE MatchAtom(_, _, _, _, _, _)

\* Disjunction :: Alternative | Disjunction, the left alternative tried first
MatchDisjunction(pattern, text, lo, hi, i, caps) ==
  LET k == TopBar(pattern, lo, hi)
  IN IF k = 0 THEN MatchAlternative(pattern, text, lo, hi, i, caps)
     ELSE MatchAlternative(pattern, text, lo, k - 1, i, caps)
            \o MatchDisjunction(pattern, text, k + 1, hi, i, caps)

\* Alternative :: Term Alternative, Term :: Atom | Atom *
MatchAlternative(pattern, text, lo, hi, i, caps) ==
  IF lo > hi THEN <<[pos |-> i, caps |-> caps]>>
  ELSE LET atomEnd == IF pattern[lo] = "(" THEN Close(pattern, lo) ELSE lo
       IN IF atomEnd < hi /\ pattern[atomEnd + 1] = "*"
          THEN MatchStar(pattern, text, lo, atomEnd, atomEnd + 2, hi, i, caps)
          ELSE ThenAlternative(pattern, text,
                               MatchAtom(pattern, text, lo, atomEnd, i, caps),
                               atomEnd + 1, hi)

\* the rest of the alternative after each way the first term matched
ThenAlternative(pattern, text, results, lo, hi) ==
  IF results = <<>> THEN <<>>
  ELSE MatchAlternative(pattern, text, lo, hi, Head(results).pos, Head(results).caps)
         \o ThenAlternative(pattern, text, Tail(results), lo, hi)

\* Atom *, greedy: one more iteration (it must consume something) is tried
\* before the rest of the alternative
MatchStar(pattern, text, lo, atomEnd, restLo, hi, i, caps) ==
  LET Consumes(r) == r.pos > i
  IN ThenStar(pattern, text,
              SelectSeq(MatchAtom(pattern, text, lo, atomEnd, i, caps), Consumes),
              lo, atomEnd, restLo, hi)
       \o MatchAlternative(pattern, text, restLo, hi, i, caps)

ThenStar(pattern, text, results, lo, atomEnd, restLo, hi) ==
  IF results = <<>> THEN <<>>
  ELSE MatchStar(pattern, text, lo, atomEnd, restLo, hi,
                 Head(results).pos, Head(results).caps)
         \o ThenStar(pattern, text, Tail(results), lo, atomEnd, restLo, hi)

\* Atom :: ( Disjunction ) | . | character, letters compared without case
MatchAtom(pattern, text, lo, atomEnd, i, caps) ==
  IF pattern[lo] = "("
  THEN LET inner == MatchDisjunction(pattern, text, lo + 1, atomEnd - 1, i, caps)
       IN [k \in 1..Len(inner) |->
             [pos  |-> inner[k].pos,
              caps |-> [inner[k].caps EXCEPT
                          ![lo] = <<SubSeq(text, i + 1, inner[k].pos)>>]]]
  ELSE IF i >= Len(text) THEN <<>>
  ELSE IF pattern[lo] = "." \/ toLowerCase(<<text[i + 1]>>) = toLowerCase(<<pattern[lo]>>)
  THEN <<[pos |-> i + 1, caps |-> caps]>>
  ELSE <<>>

\* the match of the whole pattern starting exactly at index q of text
\* (<<>> when there is none, else a one-element sequence)
ExecAt(pattern, text, q) ==
  LET results == MatchDisjunction(pattern, text, 1, Len(pattern), q,
                                  [k \in 1..Len(pattern) |-> <<>>])
  IN IF results = <<>> THEN <<>> ELSE <<Head(results)>>

\* the captures of a match in group order
Captures(pattern, caps) ==
  LET IsOpen(k) == pattern[k] = "("
      opens == SelectSeq([k \in 1..Len(pattern) |-> k], IsOpen)
  IN [n \in 1..Len(opens) |-> caps[opens[n]]]

\* RegExp.prototype[Symbol.split] on a non-empty text: p is the end of the
\* last separator, q the index tried next; a part is <<string>> or <<>>
\* (undefined, for a group that did not take part in the match)
RECURSIVE SplitFrom(_, _, _, _, _)
SplitFrom(pattern, text, p, q, parts) ==
  IF q >= Len(text) THEN Append(parts, <<SubSeq(text, p + 1, Len(text))>>)
  ELSE LET z == ExecAt(pattern, text, q)
       IN IF z = <<>> THEN SplitFrom(pattern, text, p, q + 1, parts)
          ELSE LET e == Min(z[1].pos, Len(text))
               IN IF e = p THEN SplitFrom(pattern, text, p, q + 1, parts)
                  ELSE SplitFrom(pattern, text, e, e,
                                 Append(parts, <<SubSeq(text, p + 1, q)>>)
                                   \o Captures(pattern, z[1].caps))

\* text.split(regexp)
split(text, pattern) ==
  IF text = <<>>
  THEN IF ExecAt(pattern, text, 0) # <<>> THEN <<>> ELSE << <<text>> >>
  ELSE SplitFrom(pattern, text, 0, 0, <<>>)

\* String.prototype.substring(0, end)
substring(s, end) == SubSeq(s, 1, Min(end, Len(s)))

NotRendered == [state |-> "none", segments |-> <<>>]
Threw(errorName) == [state |-> errorName, segments |-> <<>>]
Rendered(segments) == [state |-> "rendered", segments |-> segments]

\* renderHighlightedText(text, query): the segments in order, each plain or
\* marked, or the exception the call ends with
renderHighlightedText(text, query) ==
  IF query = <<>> THEN Rendered(<<[text |-> text, mark |-> FALSE]>>)
  ELSE LET pattern == <<"(">> \o query \o <<")">>
       IN IF ~ValidPattern(pattern) THEN Threw("SyntaxError")
          ELSE LET parts == split(text, pattern)
               IN IF \E k \in 1..Len(parts) : parts[k] = <<>>
                  THEN Threw("TypeError")   \* undefined.toLowerCase()
                  ELSE Rendered([k \in 1..Len(parts) |->
                         [text |-> parts[k][1],
                          mark |-> toLowerCase(parts[k][1]) = toLowerCase(query)]])

\* the texts NewsViewer highlights: titles and content snippets; and others
Snippet(article) == substring(article.content, 100) \o <<".", ".", ".">>
HighlightTexts ==
  {a.title : a \in Articles} \cup {Snippet(a) : a \in Articles}
    \cup {<<>>, <<"b","a","n","a","n","a">>, <<"a","(","o",")">>, <<"O","o","*","o">>}
HighlightQueries ==
  {<<>>, <<"o">>, <<"O","T">>, <<"a","n">>, <<".">>, <<"|">>, <<"(">>, <<")">>,
   <<"*">>, <<"(","o",")">>, <<"a","|","(","o",")">>, <<"o","*">>,
   <<"a","|","o">>, <<"(","a","|","n",")","*">>}

\* one call of renderHighlightedText
RenderHighlightedText(text, query) ==
  /\ highlightText' = text
  /\ highlightQuery' = query
  /\ highlightResult' = renderHighlightedText(text, query)
  /\ UNCHANGED <<MOCK_NEWS_DATA, loadedNews, activeChannel, searchQuery, filteredNews>>
  /\ UNCHANGED <<apiVars, uiVars, currentView>>

(***************************************************************************)
(* App: the view switch mounts one component and unmounts the other        *)
(***************************************************************************)
MountNewsViewer ==
  /\ activeChannel' = "all"
  /\ searchQuery' = <<>>
  /\ ComputeFilteredNews("all", <<>>)
  /\ UNCHANGED loadedNews

UnmountNewsViewer ==
  /\ activeChannel' = "all"
  /\ searchQuery' = <<>>
  /\ filteredNews' = <<>>
  /\ UNCHANGED <<MOCK_NEWS_DATA, loadedNews>>

TranscriberInitialState ==
  /\ inputType' = InitialInputType
  /\ urlValue' = <<>>
  /\ file' = NoFile
  /\ fileName' = ""
  /\ isLoading' = FALSE
  /\ transcript' = ""
  /\ error' = NoError

\* first render of <App />: currentView is 'news'
RenderApp ==
  /\ currentView = "unrendered"
  /\ currentView' = "news"
  /\ MountNewsViewer
  /\ UNCHANGED <<apiVars, uiVars, highlightVars>>

setCurrentView(view) ==
  /\ currentView \in {"news", "transcriber"}
  /\ view # currentView
  /\ currentView' = view
  /\ IF view = "transcriber"
     THEN /\ inst < MaxMounts
          /\ inst' = inst + 1
          /\ TranscriberInitialState
          /\ lastOp' = [Op("mount") EXCEPT !.abandoned = FALSE]
          /\ UnmountNewsViewer
     ELSE /\ TranscriberInitialState
          /\ lastOp' = [Op("unmount") EXCEPT !.abandoned = FALSE]
          /\ MountNewsViewer
          /\ UNCHANGED inst
  /\ UNCHANGED <<variant, pending, outbound>>
  /\ UNCHANGED <<apiVars, highlightVars>>

(***************************************************************************)
(* Specifications                                                          *)
(***************************************************************************)
Init ==
  /\ handlerName = "none" /\ req = NoRequest /\ apiKey = Undefined
  /\ pc = "idle" /\ calls = <<>> /\ responses = <<>> /\ escaped = FALSE
  /\ thrown = NoThrown /\ duration = NotResolved
  /\ variant \in Variants
  /\ currentView = "unrendered"
  /\ inst = 0
  /\ inputType = InitialInputType /\ urlValue = <<>> /\ file = NoFile
  /\ fileName = "" /\ isLoading = FALSE /\ transcript = "" /\ error = NoError
  /\ pending = {} /\ outbound = {} /\ lastOp = NoOp
  /\ MOCK_NEWS_DATA \in StoreChoices
  /\ loadedNews = MOCK_NEWS_DATA
  /\ activeChannel = "all" /\ searchQuery = <<>> /\ filteredNews = <<>>
  /\ highlightText = <<>> /\ highlightQuery = <<>> /\ highlightResult = NotRendered

\* the handlers
NextApi ==
  \/ \E r \in YoutubeRequests, key \in ApiKeys : YoutubeHandler(r, key)
  \/ \E f \in Failures : GetInfoRejected(f)
  \/ \E ls \in LengthSecondsInputs, c \in ChooseFormatOutcomes : GetInfoResolved(ls, c)
  \/ \E m \in ExternalMessages : DownloadFailed(m)
  \/ DownloadEnded
  \/ \E t \in Transcripts : YoutubeGenerateContentResolved(t)
  \/ \E f \in Failures : YoutubeGenerateContentRejected(f)
  \/ \E r \in FileRequests, key \in ApiKeys : FileHandler(r, key)
  \/ \E t \in Transcripts : FileGenerateContentResolved(t)
  \/ \E f \in Failures : FileGenerateContentRejected(f)

InitApi == Init /\ variant = "fetch" /\ MOCK_NEWS_DATA = <<Article1, Article2, Article3>>
SpecApi == InitApi /\ [][NextApi]_vars

\* one UI session on the transcription feature
NextUI ==
  \/ RenderApp
  \/ \E v \in {"news", "transcriber"} : setCurrentView(v)
  \/ \E t \in {"url", "file"} : handleTypeChange(t)
  \/ \E f \in Files \cup {NoFile} : handleFileChange(f)
  \/ \E v \in UrlInputs : UrlInputChange(v)
  \/ handleTranscribe_Fetch
  \/ \E keyOk \in BOOLEAN : handleTranscribe_Direct(keyOk)
  \/ \E r \in pending, ok \in BOOLEAN : FileReadSettled(r, ok)
  \/ \E r \in pending, o \in FetchOutcomes : FetchSettled(r, o)
  \/ \E r \in pending, t \in Transcripts : DirectGenerateContentResolved(r, t)
  \/ \E r \in pending, f \in Failures : DirectGenerateContentRejected(r, f)

InitUI == Init /\ MOCK_NEWS_DATA = <<Article1, Article2, Article3>>
SpecUI == InitUI /\ [][NextUI]_vars

\* one UI session on the news feature
NextNews ==
  \/ RenderApp
  \/ \E v \in {"news", "transcriber"} : setCurrentView(v)
  \/ \E c \in ChannelFilters : setActiveChannel(c)
  \/ \E q \in SearchInputs : setSearchQuery(q)

SpecNews == Init /\ [][NextNews]_vars

\* calls of renderHighlightedText
NextHighlight ==
  \E text \in HighlightTexts, query \in HighlightQueries :
     RenderHighlightedText(text, query)

InitHighlight == Init /\ variant = "fetch" /\ MOCK_NEWS_DATA = <<Article1, Article2, Article3>>
SpecHighlight == InitHighlight /\ [][NextHighlight]_vars



(***************************************************************************)
(* Properties                                                              *)
(***************************************************************************)
Status == IF responses = <<>> THEN 0 ELSE responses[1].status
Called(name) == Count(calls, name) > 0
Caught == thrown # NoThrown
CredentialMarker(m) ==
  includes(toLowerCase(m), MarkerApiKey) \/ includes(m, MarkerApiKeyEnv)
\* the catch block caught the Error streamToBuffer rejects with
StreamFailed ==
  /\ Caught
  /\ Len(thrown.message) >= Len(StreamErrorPrefix)
  /\ SubSeq(thrown.message, 1, Len(StreamErrorPrefix)) = StreamErrorPrefix
\* the catch block caught a failure of an external collaborator
ExternalFailure == Caught /\ thrown # Err(MsgApiKeyNotSet)
SubmittedFile(size) ==
  lastOp.op = "handleTranscribe" /\ lastOp.mode = "file" /\ lastOp.size = size

\* C1: in file mode, a submit of a file whose declared size is above
\* 4.5 * 1024 * 1024 bytes ends with the size-limit error and no network call
\* is ever made for such a file (neither to the transcribe-file handler nor to
\* the AI service); a file of exactly the ceiling is not rejected by the check.
C1_OversizeRejectedWithoutCall ==
  /\ \A o \in outbound : o.size <= MaxUploadBytes
  /\ \A f \in Files :
       (SubmittedFile(f.size) /\ f.size > MaxUploadBytes)
          => /\ error = <<ConvertFailed, MsgOverLimit>>
             /\ ~isLoading
             /\ ~\E r \in pending : r.inst = inst
  /\ SubmittedFile(MaxUploadBytes) => error # <<ConvertFailed, MsgOverLimit>>

\* C1 holds of the build that posts to the handlers
C1_FetchBuildOnly == variant = "fetch" => C1_OversizeRejectedWithoutCall

\* C2: in transcribe-youtube, a POST whose url is missing or fails validateURL
\* is answered 400 (invalid link), and getInfo, chooseFormat, the download and
\* the AI service are not called in that invocation.
C2_InvalidUrlRejectedFirst ==
  (/\ handlerName = "youtube"
   /\ req.method = "POST"
   /\ (~req.hasBody \/ Falsy(req.url) \/ ~validateURL(req.url)))
  => /\ pc = "done"
     /\ responses = <<JsonError(400, ErrInvalidUrl)>>
     /\ ~Called("getInfo") /\ ~Called("chooseFormat")
     /\ ~Called("download") /\ ~Called("generateContent")

\* C3: every invocation of either handler ends by sending exactly one JSON
\* response with status 200, 400, 405, 413 or 500; no exception leaves the
\* handler and no invocation ends without a response.
C3_ExactlyOneResponse ==
  /\ Len(responses) <= 1
  /\ pc = "done" => /\ ~escaped
                    /\ Len(responses) = 1
                    /\ Status \in {200, 400, 405, 413, 500}

\* C4 as stated: whenever API_KEY is absent, or a caught Error's message
\* contains "api key" in any letter case, the response is 500 with the fixed
\* credential message and no details; with the key absent the AI service is
\* not called.
C4_CredentialAlways500 ==
  /\ Falsy(apiKey) => ~Called("generateContent")
  /\ (/\ pc = "done"
      /\ handlerName # "none"
      /\ \/ Falsy(apiKey)
         \/ ExternalFailure /\ thrown.isError
                            /\ includes(toLowerCase(thrown.message), MarkerApiKey))
     => responses = <<JsonError(500, ErrApiKeyConfig)>>

\* C4 (amended): when an invocation reaches the credential check with API_KEY
\* absent (in transcribe-file: a POST carrying fileData and mimeType; in
\* transcribe-youtube: the check throws after the download has ended), or when
\* the caught failure is an Error whose message contains "api key" in any
\* letter case, the response is 500 with the fixed credential message and no
\* details, whatever else the message contains; with the key absent the AI
\* service is never called.
C4_CredentialMisconfigured ==
  /\ Falsy(apiKey) => ~Called("generateContent")
  /\ (/\ handlerName = "file" /\ req.method = "POST" /\ req.hasBody
      /\ ~Falsy(req.fileData) /\ ~Falsy(req.mimeType) /\ Falsy(apiKey))
     => pc = "done" /\ responses = <<JsonError(500, ErrApiKeyConfig)>>
  /\ (handlerName = "youtube" /\ pc = "done" /\ thrown = Err(MsgApiKeyNotSet))
     => /\ Falsy(apiKey)
        /\ calls = <<"validateURL", "getInfo", "chooseFormat", "download">>
        /\ responses = <<JsonError(500, ErrApiKeyConfig)>>
  /\ (handlerName = "youtube" /\ Falsy(apiKey) /\ pc = "done"
      /\ Called("download") /\ ~StreamFailed)
     => /\ thrown = Err(MsgApiKeyNotSet)
        /\ responses = <<JsonError(500, ErrApiKeyConfig)>>
  /\ (pc = "done" /\ Caught /\ thrown.isError
      /\ includes(toLowerCase(thrown.message), MarkerApiKey))
     => responses = <<JsonError(500, ErrApiKeyConfig)>>

C4_Witness ==
  /\ pc = "done" /\ handlerName = "youtube"
  /\ thrown = Err(MsgKeyAndQuota)
  /\ responses = <<JsonError(500, ErrApiKeyConfig)>>

\* C5: in one invocation the AI service is called at most once and the media
\* download is started at most once; nothing is called after a caught
\* failure; an invocation that ends in 200 made exactly one AI call (in
\* transcribe-youtube after exactly one getInfo and one download, in that
\* order); one that ends in 400 or 405 made no AI call.
C5_NoRepeatedCalls ==
  /\ Count(calls, "generateContent") <= 1
  /\ Count(calls, "download") <= 1
  /\ Count(calls, "getInfo") <= 1
  /\ Caught => pc = "done"
  /\ (pc = "done" /\ Status = 200)
       => /\ Count(calls, "generateContent") = 1
          /\ handlerName = "youtube"
               => calls = <<"validateURL", "getInfo", "chooseFormat",
                            "download", "generateContent">>
          /\ handlerName = "file" => calls = <<"generateContent">>
  /\ (pc = "done" /\ Status \in {400, 405}) => ~Called("generateContent")

C5_Witness ==
  /\ pc = "done" /\ handlerName = "youtube" /\ Status = 200
  /\ Count(calls, "generateContent") = 1

\* C6: in transcribe-youtube, for every resolved duration d the request is
\* rejected with 400 (duration exceeded) exactly when d > 600, then without
\* format selection, download or AI call; d = 600 goes on to format selection
\* (and to the download when a format is found).
C6_DurationCeiling ==
  (duration # NotResolved /\ ~duration.nan)
  => /\ (duration.value > 600) <=> (responses = <<JsonError(400, ErrDuration)>>)
     /\ duration.value > 600
          => /\ pc = "done"
             /\ ~Called("chooseFormat") /\ ~Called("download")
             /\ ~Called("generateContent")
     /\ duration.value <= 600 => Called("chooseFormat")

C6_Witness ==
  /\ duration # NotResolved /\ ~duration.nan /\ duration.value = 600
  /\ pc = "download" /\ Called("download")

\* the marker as the claim words it
ClaimedMarkerResourceExhausted == <<"r","e","s","o","u","r","c","e"," ","e","x","h","a","u","s","t","e","d">>

\* C7 as stated: an external failure whose message contains "resource
\* exhausted" (any letter case) and no credential marker is answered 413, in
\* transcribe-file also one containing "request entity too large"; a failure
\* matching no marker is answered 500 with the raw message in details.
C7_ResourceExhausted413 ==
  (pc = "done" /\ ExternalFailure /\ thrown.isError)
  => LET m  == thrown.message
         lm == toLowerCase(m)
         exhausted  == includes(lm, ClaimedMarkerResourceExhausted)
         tooLarge   == handlerName = "file" /\ includes(lm, MarkerEntityTooLarge)
     IN /\ (~CredentialMarker(m) /\ (exhausted \/ tooLarge)) => Status = 413
        /\ (~CredentialMarker(m) /\ ~exhausted /\ ~tooLarge)
             => /\ Status = 500
                /\ responses[1].hasDetails /\ responses[1].details = m

\* C7 (amended): a caught failure without credential marker ("api key" in any
\* letter case, or "API_KEY") whose message contains "resource has been
\* exhausted" (any letter case) is answered 413, in transcribe-file also one
\* containing "request entity too large"; a failure matching no marker is
\* answered 500 with details holding the message the catch block saw: the
\* Error's message (prefixed "Stream error: " for a download failure), or
\* "An unknown error occurred" for a thrown value that is not an Error.
C7_FailureClasses ==
  (pc = "done" /\ Caught)
  => LET m  == IF thrown.isError THEN thrown.message ELSE MsgUnknown
         lm == toLowerCase(m)
         exhausted == includes(lm, MarkerResourceExhausted)
         tooLarge  == handlerName = "file" /\ includes(lm, MarkerEntityTooLarge)
     IN /\ (~CredentialMarker(m) /\ (exhausted \/ tooLarge))
             => /\ Status = 413
                /\ ~responses[1].hasDetails
        /\ (~CredentialMarker(m) /\ ~exhausted /\ ~tooLarge)
             => /\ Status = 500
                /\ responses[1].hasDetails /\ responses[1].details = m
                /\ responses[1].error = IF handlerName = "file" THEN ErrFileFailed
                                        ELSE ErrYoutubeFailed

C7_Witness ==
  /\ pc = "done" /\ handlerName = "file"
  /\ thrown = Err(MsgEntity) /\ Status = 413

\* C8: at most one transcription request is outstanding at any time in one UI
\* session, whatever the user does (submits, mode switches, file selections,
\* URL edits, switching between the news and the transcription view).
C8_AtMostOneOutstanding == Cardinality(pending) <= 1

\* C9: right after handleTypeChange the URL text is empty, no file is selected,
\* the file name is empty, the transcript is empty and the error is empty,
\* whatever they held before.
C9_TypeChangeResets ==
  lastOp.op = "handleTypeChange"
  => /\ urlValue = <<>>
     /\ file = NoFile
     /\ fileName = ""
     /\ transcript = ""
     /\ error = NoError

C9_Witness ==
  /\ lastOp.op = "handleTypeChange" /\ lastOp.dirty
  /\ isLoading

\* C10: the article store is never mutated: after any sequence of queries it
\* holds the same articles in the same order as at load time.
C10_StoreNeverMutated == MOCK_NEWS_DATA = loadedNews


\* two characters equal up to letter case
SameLetter(a, b) ==
  a = b \/ \E k \in 1..Len(UpperCase) : {a, b} = {UpperCase[k], LowerCase[k]}
\* q occurs in s as a case-insensitive substring
ContainsIgnoringCase(s, q) ==
  \E i \in 0..(Len(s) - Len(q)) : \A k \in 1..Len(q) : SameLetter(s[i + k], q[k])
Stored == {MOCK_NEWS_DATA[i] : i \in 1..Len(MOCK_NEWS_DATA)}
Shown == {filteredNews[i] : i \in 1..Len(filteredNews)}
ChannelPredicate(a) == activeChannel = "all" \/ a.channelId = activeChannel
TextPredicate(a, q) ==
  ContainsIgnoringCase(a.title, q) \/ ContainsIgnoringCase(a.content, q)

\* C11 as stated: for every channel filter and every search string q,
\* whitespace-only ones included, the result holds exactly the stored articles
\* that satisfy the channel predicate and whose title or content contains q
\* as a case-insensitive substring; "all" with "" gives every stored article.
C11_ExactlyTheMatches ==
  currentView = "news"
  => /\ Len(filteredNews) = Cardinality(Shown)
     /\ Shown = {a \in Stored : ChannelPredicate(a) /\ TextPredicate(a, searchQuery)}
     /\ (activeChannel = "all" /\ searchQuery = <<>>) => Shown = Stored

\* C11 (amended): the result holds exactly the stored articles that satisfy
\* the channel predicate and, when q has a character other than white space,
\* whose title or content contains q (untrimmed) as a case-insensitive
\* substring; an empty or whitespace-only q restricts nothing, so "all" with
\* such a q gives every stored article.
C11_MatchesUnlessBlank ==
  currentView = "news"
  => /\ Len(filteredNews) = Cardinality(Shown)
     /\ Shown = {a \in Stored :
                   /\ ChannelPredicate(a)
                   /\ trim(searchQuery) # <<>> => TextPredicate(a, searchQuery)}
     /\ (activeChannel = "all" /\ trim(searchQuery) = <<>>) => Shown = Stored

C11_Witness ==
  /\ currentView = "news"
  /\ activeChannel = "all" /\ searchQuery = <<"v","o","t","e">>
  /\ Shown = {Article1, Article2}


LoadIndex(a) == CHOOSE i \in 1..Len(loadedNews) : loadedNews[i] = a

\* C12: for every channel filter and search string, in every query of a
\* sequence of queries, the result is ordered by date descending and two
\* articles of equal date appear in their load order in the store.
C12_DateDescendingStable ==
  currentView = "news"
  => \A i, j \in 1..Len(filteredNews) :
       i < j => \/ filteredNews[i].date > filteredNews[j].date
                \/ /\ filteredNews[i].date = filteredNews[j].date
                   /\ LoadIndex(filteredNews[i]) < LoadIndex(filteredNews[j])

C12_Witness ==
  /\ currentView = "news"
  /\ loadedNews = <<Article2, Article3, Article1>>
  /\ activeChannel = "cna" /\ searchQuery = <<" ">>
  /\ filteredNews = <<Article3, Article1>>


RECURSIVE Concat(_)
Concat(segments) ==
  IF segments = <<>> THEN <<>> ELSE Head(segments).text \o Concat(Tail(segments))

\* C13: for every text and every query (the empty one and those with
\* parentheses, "|", "." or "*" included), renderHighlightedText produces
\* segments whose texts, concatenated in order, are the original text; an
\* empty query produces the text with no highlighted segment.
C13_SegmentsReproduceText ==
  highlightResult # NotRendered
  => /\ highlightResult.state = "rendered"
     /\ Concat(highlightResult.segments) = highlightText
     /\ highlightQuery = <<>>
          => \A k \in 1..Len(highlightResult.segments) :
               ~highlightResult.segments[k].mark


\* C14: once handleTypeChange has run while a request was outstanding, and
\* until the next submit, the transcript and the error message stay empty
\* (the response to the abandoned request does not populate them) and the
\* submit button is not disabled.
C14_AbandonedRequestIgnored ==
  (currentView = "transcriber" /\ lastOp.abandoned)
  => /\ transcript = ""
     /\ error = NoError
     /\ ~isLoading

====
